---- MODULE Spec2Model ----
(***************************************************************************)
(* Model of live-mongodb-fixtures (src/fixture.js): the Fixture class, its  *)
(* constructor and definition parser, and the load / get / clear            *)
(* operations with their async.parallel fan-out and join.                    *)
(*                                                                           *)
(* JavaScript strings are sequences of one-character strings, so that the   *)
(* template literals of the source are concatenations (\o).  A missing      *)
(* attribute and the empty string are both falsy in the source; both are    *)
(* the empty sequence here.                                                  *)
(***************************************************************************)
EXTENDS Integers, Sequences, FiniteSets, TLC

VARIABLES
    options,    \* the argument of `new Fixture(options)`
    ctor,       \* "pending" | "ok" | "threw": outcome of the constructor
    fixture,    \* the constructed object (this.name, .fixtures, .keys, .path)
    created,    \* Binding objects pushed to parse's local `found` so far
    files,      \* the filesystem: filename -> content
    op,         \* the operation invoked: "none" | "load" | "get" | "clear"
    tasks,      \* per binding: the state of its loadDocs/findDocs/clearDocs task
    outer,      \* the async.parallel group of load / get / clear
    cbLog,      \* the calls made to the caller's callback, in order
    thrown,     \* exceptions thrown outside any callback (uncaught), in order
    halted,     \* the process was ended by an uncaught exception
    firstErr,   \* the first error any task of the operation reported
    log,        \* the calls issued to the filesystem and the collections
    ncalls,     \* number of operations invoked so far
    module,     \* the fixture-defining module: filename, parent, argv, exports
    exported,   \* the values of module.exports, in order (Fixtures are mutable)
    proc,       \* the process: where it is, and its exit status
    runs,       \* per exported value: the operation running on it
    top,        \* the async.parallel group of loadAll / getAll
    io,         \* the operations started and the calls they issued
    calls       \* invocations of load / get / clear that may overlap

vars == <<options, ctor, fixture, created, files, op, tasks, outer, cbLog,
          thrown, halted, firstErr, log, ncalls,
          module, exported, proc, runs, top, io, calls>>

cliVars == <<module, exported, proc, runs, top, io>>

libVars == <<options, ctor, fixture, created, files, op, tasks, outer, cbLog,
             thrown, halted, firstErr, log, ncalls>>

opVars == <<files, op, tasks, outer, cbLog, thrown, halted, firstErr, log, ncalls>>

(***************************************************************************)
(* Bounds of the model.                                                     *)
(***************************************************************************)
MaxList == 2        \* longest collection list bound to one key
MaxDocs == 2        \* most documents in one file / one find result
MaxN == 2           \* largest removed-count a remove reports
MaxCalls == 2       \* operations invoked in one behaviour

(***************************************************************************)
(* Strings.                                                                  *)
(***************************************************************************)
Dot == <<".">>
Slash == <<"/">>
Digits == <<"0", "1", "2", "3", "4", "5", "6", "7", "8", "9">>

\* `${i}` for a small array index i
IndexStr(i) == <<Digits[i + 1]>>

RECURSIVE SumSeq(_)
SumSeq(s) == IF s = <<>> THEN 0 ELSE Head(s) + SumSeq(Tail(s))

(***************************************************************************)
(* Collection handles: the attributes parseName looks at and the methods    *)
(* the handle has.                                                           *)
(***************************************************************************)
AllCaps == {"find", "save", "remove"}

Handle(id, n, un, cn, caps) ==
    [id |-> id, name |-> n, uname |-> un, cname |-> cn, caps |-> caps]

HUser == Handle("User", <<"U">>, <<>>, <<>>, AllCaps)
HSett == Handle("Settings", <<>>, <<"S">>, <<>>, AllCaps)
HPost == Handle("Posts", <<>>, <<>>, <<"P">>, AllCaps)
HAnon == Handle("Anon", <<>>, <<>>, <<>>, AllCaps)
HAll == Handle("All", <<"U">>, <<"S">>, <<"P">>, AllCaps)
HNameUname == Handle("NameUname", <<"U">>, <<"S">>, <<>>, AllCaps)
HNameCname == Handle("NameCname", <<"U">>, <<>>, <<"P">>, AllCaps)
HUnameCname == Handle("UnameCname", <<>>, <<"S">>, <<"P">>, AllCaps)
HNoSave == Handle("NoSave", <<"N">>, <<>>, <<>>, {"find", "remove"})
HNoFind == Handle("NoFind", <<>>, <<>>, <<>>, {"save", "remove"})

Handles == {HUser, HSett, HPost, HAnon, HAll, HNameUname, HNameCname,
            HUnameCname, HNoSave, HNoFind}

(***************************************************************************)
(* Fixture.parseName                                                         *)
(***************************************************************************)
parseNameFirstWins(fname, collection, name) ==
    IF collection.name # <<>> THEN fname \o Dot \o collection.name
    ELSE IF collection.uname # <<>> THEN fname \o Dot \o collection.uname
    ELSE IF collection.cname # <<>> THEN fname \o Dot \o collection.cname
    ELSE name

parseName(fname, collection, name) ==
    LET n1 == IF collection.name # <<>>
              THEN fname \o Dot \o collection.name ELSE name
        n2 == IF collection.uname # <<>>
              THEN fname \o Dot \o collection.uname ELSE n1
        n3 == IF collection.cname # <<>>
              THEN fname \o Dot \o collection.cname ELSE n2
    IN n3

(***************************************************************************)
(* Fixture.parse                                                             *)
(*                                                                           *)
(* The collections mapping is the sequence of its (key, value) entries in   *)
(* the order _.each visits them; a value is a list of handles (t = "arr")   *)
(* or one handle (t = "one", the handle is v[1]).                            *)
(***************************************************************************)
\* _.mapValues(fixtures, value => _.isArray(value) ? value : [value])
Normalize(value) == IF value.t # "arr" THEN <<value.v[1]>> ELSE value.v

\* the fallback name `${this.name}.${key}[${i}]`
FallbackName(fname, key, i) ==
    fname \o Dot \o key \o <<"[">> \o IndexStr(i) \o <<"]">>

\* the body of the inner _.each for one collection: the asserts, then the push
ParseOneFlipped(fname, key, i, collection, found) ==
    LET name == parseName(fname, collection, FallbackName(fname, key, i))
    IN  IF collection.caps # AllCaps
        THEN [ok |-> FALSE, found |-> found, err |-> <<"missing method", name>>]
        ELSE [ok |-> TRUE,
              found |-> <<[name |-> name, collection |-> collection,
                           key |-> key]>> \o found,
              err |-> <<>>]

ParseOneUnchecked(fname, key, i, collection, found) ==
    LET name == parseName(fname, collection, FallbackName(fname, key, i))
    IN  [ok |-> TRUE,
         found |-> Append(found, [name |-> name, collection |-> collection,
                                  key |-> key]),
         err |-> <<>>]

ParseOne(fname, key, i, collection, found) ==
    LET name == parseName(fname, collection, FallbackName(fname, key, i))
    IN  IF "find" \notin collection.caps
        THEN [ok |-> FALSE, found |-> found, err |-> <<"missing find", name>>]
        ELSE IF "remove" \notin collection.caps
        THEN [ok |-> FALSE, found |-> found, err |-> <<"missing remove", name>>]
        ELSE IF "save" \notin collection.caps
        THEN [ok |-> FALSE, found |-> found, err |-> <<"missing save", name>>]
        ELSE [ok |-> TRUE,
              found |-> Append(found, [name |-> name, collection |-> collection,
                                       key |-> key]),
              err |-> <<>>]

\* the inner _.each over the collections of one key, from 0-based index i
RECURSIVE ParseList(_, _, _, _, _)
ParseList(fname, key, collections, i, found) ==
    IF i >= Len(collections)
    THEN [ok |-> TRUE, found |-> found, err |-> <<>>]
    ELSE LET r == ParseOne(fname, key, i, collections[i + 1], found)
         IN  IF r.ok THEN ParseList(fname, key, collections, i + 1, r.found)
             ELSE r

\* the outer _.each over the entries of the mapping
RECURSIVE ParseEntries(_, _, _)
ParseEntries(fname, entries, found) ==
    IF entries = <<>>
    THEN [ok |-> TRUE, found |-> found, err |-> <<>>]
    ELSE LET e == Head(entries)
             r == ParseList(fname, e.key, Normalize(e.value), 0, found)
         IN  IF r.ok THEN ParseEntries(fname, Tail(entries), r.found) ELSE r

parse(fname, entries) == ParseEntries(fname, entries, <<>>)

(***************************************************************************)
(* Fixture.constructor                                                       *)
(*                                                                           *)
(* JavaScript values carry their type in t: name is "str" or something      *)
(* else, collections is "obj" or something else, keys is "arr" or something *)
(* else.  The result records whether the constructor returned, the object   *)
(* it built, and the Binding objects parse had created when it stopped.     *)
(***************************************************************************)
\* _.isString, _.isObject (true of arrays as well), _.isArray
isString(x) == x.t = "str"
isObject(x) == x.t \in {"obj", "arr"}
isArray(x) == x.t = "arr"

\* the entries _.mapValues and _.each visit: those of a mapping, or the
\* elements of an array under their indices
EntriesOf(c) ==
    IF c.t = "arr"
    THEN [i \in DOMAIN c.v |-> [key |-> IndexStr(i - 1),
                                value |-> [t |-> "one", v |-> <<c.v[i]>>]]]
    ELSE c.v

NoFixture == [name |-> <<>>, fixtures |-> <<>>, keys |-> <<>>, path |-> <<>>]

Threw(err, made) ==
    [ok |-> FALSE, obj |-> NoFixture, err |-> err, created |-> made]

constructor(o) ==
    IF ~isString(o.name)
    THEN Threw(<<"Fixture name must be String">>, <<>>)
    ELSE IF ~isObject(o.collections)
    THEN Threw(<<"Fixture collections must be Object">>, <<>>)
    ELSE LET p == parse(o.name.v, EntriesOf(o.collections))
         IN  IF ~p.ok THEN Threw(p.err, p.found)
             ELSE IF ~isArray(o.keys)
             THEN Threw(<<"Fixture keys must be Array">>, p.found)
             ELSE [ok |-> TRUE,
                   obj |-> [name |-> o.name.v, fixtures |-> p.found,
                            keys |-> o.keys.v, path |-> o.path],
                   err |-> <<>>,
                   created |-> p.found]

(***************************************************************************)
(* Fixture.query and Fixture.filename                                        *)
(***************************************************************************)
\* the query keys and the query values of the fixtures examined
K1 == <<"k">>
K2 == <<"j">>
SomeKeys == << <<"a">>, <<"b">> >>

queryEq(key, values) == [key |-> key, operator |-> "$eq", values |-> values]

\* {[key]: {$in: values}}
query(key, values) == [key |-> key, operator |-> "$in", values |-> values]

MatchesEmptyAll(q, d) ==
    \/ q.values = <<>>
    \/ \E i \in DOMAIN q.values : d.fields[q.key] = q.values[i]

\* collection.find / collection.remove select the documents d with
\* d[key] among the values of $in ($eq: d[key] equal to the operand)
Matches(q, d) ==
    CASE q.operator = "$in" ->
           \E i \in DOMAIN q.values : d.fields[q.key] = q.values[i]
      [] OTHER -> d.fields[q.key] = q.values

DefaultDir == <<".", "/", "t", "e", "s", "t">>
Extension == <<".", "e", "j", "s", "o", "n">>

\* `${this.path || './test'}/${name}.ejson`
filename(fx, name) ==
    LET dir == IF fx.path # <<>> THEN fx.path ELSE DefaultDir
    IN  dir \o Slash \o name \o Extension

FileNames(fx) == {filename(fx, fx.fixtures[b].name) : b \in DOMAIN fx.fixtures}

(***************************************************************************)
(* The serialized form.  A file is missing, holds text that EJSON.parse     *)
(* rejects ("garbage"), holds the text of a value that is not a list        *)
(* ("nonlist", such as `42` or `null`), or holds the text of a document     *)
(* list ("ejson").  Documents are records of an id and fields.                *)
(***************************************************************************)
\* document i of a collection: its value under each query key is one of
\* SomeKeys; Stray is a document of the collection with another value
Doc(i) ==
    [id |-> i,
     fields |-> [key \in {K1, K2} |-> SomeKeys[((i - 1) % Len(SomeKeys)) + 1]]]

Stray == [id |-> 0, fields |-> [key \in {K1, K2} |-> <<"z">>]]

DocList(n) == [i \in 1..n |-> Doc(i)]

\* what a collection may hold when it is queried: up to m documents of the
\* fixture's kind, and a stray one
Stored(m) == {DocList(n) \o <<Stray>> : n \in 0..m}

\* the documents find(q) returns from a collection, in the collection's order
Find(q, stored) == SelectSeq(stored, LAMBDA d : Matches(q, d))

\* EJSON.stringify(docs)
EJSONstringify(docs) ==
    [kind |-> "ejson", text |-> [i \in DOMAIN docs |-> <<"{", docs[i], "}">>]]

Missing == [kind |-> "missing", text |-> <<>>]
Garbage == [kind |-> "garbage", text |-> <<>>]
NonList == [kind |-> "nonlist", text |-> <<>>]

EJSONparseDropLast(content) ==
    IF content.kind = "ejson"
    THEN [i \in 1..(Len(content.text) - 1) |-> content.text[i][2]]
    ELSE <<>>

\* _.toArray(EJSON.parse(text)) for text that parses: a scalar gives []
EJSONparseToArray(content) ==
    IF content.kind = "ejson"
    THEN [i \in DOMAIN content.text |-> content.text[i][2]]
    ELSE <<>>

FileContents ==
    {Missing, Garbage, NonList} \cup {EJSONstringify(DocList(n)) : n \in 0..MaxDocs}

(***************************************************************************)
(* Errors and callback calls.                                                *)
(***************************************************************************)
NoErr == [kind |-> "none", b |-> 0, i |-> 0]
Err(kind, b, i) == [kind |-> kind, b |-> b, i |-> i]

CallErr(e) == [err |-> e, hasTotal |-> FALSE, total |-> 0]
CallOk(t) == [err |-> NoErr, hasTotal |-> TRUE, total |-> t]

ReduceError == "TypeError: Reduce of empty array with no initial value"
ParseError == "SyntaxError: EJSON.parse"

(***************************************************************************)
(* async.parallel(tasks, callback): the state of one group.                  *)
(*   n         number of tasks                                               *)
(*   results   results[i] of the tasks that called back without error       *)
(*   returned  tasks that have called back                                   *)
(*   completed count of tasks that called back without error                *)
(*   called    the group's final callback has been called                   *)
(* emit says what the step makes the final callback receive: "none" (not    *)
(* called), "err" (called with the error), "ok" (called with the results).  *)
(***************************************************************************)
ParallelStart(n) ==
    [g |-> [n |-> n, results |-> <<>>, returned |-> {}, completed |-> 0,
            called |-> (n = 0)],
     emit |-> IF n = 0 THEN "ok" ELSE "none"]

SetResult(results, i, v) ==
    [j \in (DOMAIN results) \cup {i} |-> IF j = i THEN v ELSE results[j]]

ParallelDoneLastError(g, i, err, value) ==
    IF err # NoErr
    THEN [g |-> [g EXCEPT !.returned = @ \cup {i}],
          emit |-> IF g.returned \cup {i} = 1..g.n THEN "err" ELSE "none"]
    ELSE LET c == g.completed + 1
         IN  [g |-> [g EXCEPT !.results = SetResult(@, i, value),
                              !.returned = @ \cup {i},
                              !.completed = c,
                              !.called = g.called \/ c = g.n],
              emit |-> IF ~g.called /\ c = g.n THEN "ok" ELSE "none"]

ParallelDoneCancel(g, i, err, value) ==
    IF err # NoErr
    THEN [g |-> [g EXCEPT !.returned = 1..g.n, !.called = TRUE],
          emit |-> IF g.called THEN "none" ELSE "err"]
    ELSE LET c == g.completed + 1
         IN  [g |-> [g EXCEPT !.results = SetResult(@, i, value),
                              !.returned = @ \cup {i},
                              !.completed = c,
                              !.called = g.called \/ c = g.n],
              emit |-> IF ~g.called /\ c = g.n THEN "ok" ELSE "none"]

ParallelDoneEvery(g, i, err, value) ==
    IF err # NoErr
    THEN [g |-> [g EXCEPT !.returned = @ \cup {i}, !.called = TRUE],
          emit |-> "err"]
    ELSE LET c == g.completed + 1
         IN  [g |-> [g EXCEPT !.results = SetResult(@, i, value),
                              !.returned = @ \cup {i},
                              !.completed = c,
                              !.called = g.called \/ c = g.n],
              emit |-> IF ~g.called /\ c = g.n THEN "ok" ELSE "none"]

ParallelDone(g, i, err, value) ==
    IF err # NoErr
    THEN [g |-> [g EXCEPT !.returned = @ \cup {i}, !.called = TRUE],
          emit |-> IF g.called THEN "none" ELSE "err"]
    ELSE LET c == g.completed + 1
         IN  [g |-> [g EXCEPT !.results = SetResult(@, i, value),
                              !.returned = @ \cup {i},
                              !.completed = c,
                              !.called = g.called \/ c = g.n],
              emit |-> IF ~g.called /\ c = g.n THEN "ok" ELSE "none"]

(***************************************************************************)
(* The final callbacks of load, get and clear.                               *)
(***************************************************************************)
\* results.reduce((a, b) => a + b), from accumulator a over the rest s
RECURSIVE ReduceFrom(_, _)
ReduceFrom(a, s) == IF s = <<>> THEN a ELSE ReduceFrom(a + Head(s), Tail(s))

MapNLength(results) == [i \in DOMAIN results |-> 1]

\* _.map(results, 'n')
MapN(results) == [i \in DOMAIN results |-> results[i].n]

\* what the final callback does: the calls it makes to the caller's
\* callback and the exceptions it throws
FinalCallback(o, emit, err, results) ==
    IF emit = "none" THEN [cb |-> <<>>, thrown |-> <<>>]
    ELSE IF emit = "err" THEN [cb |-> <<CallErr(err)>>, thrown |-> <<>>]
    ELSE LET nums == IF o = "clear" THEN MapN(results) ELSE results
         IN  IF nums = <<>>
             THEN [cb |-> <<>>, thrown |-> <<ReduceError>>]
             ELSE [cb |-> <<CallOk(ReduceFrom(Head(nums), Tail(nums)))>>,
                   thrown |-> <<>>]

CountAll(results) == Cardinality(DOMAIN results)

\* results.filter((i) => i != null).length
CountNonNull(results) == Cardinality({i \in DOMAIN results : results[i] # "null"})

(***************************************************************************)
(* State of the operations.                                                  *)
(***************************************************************************)
NBindings == Len(fixture.fixtures)
Bindings == 1..NBindings

FileOf(b) == filename(fixture, fixture.fixtures[b].name)
QueryOf(b) == query(fixture.fixtures[b].key, fixture.keys)

\* the task of one binding: st is where loadDocs / findDocs / clearDocs is,
\* docs the documents it read or found, inner the group of its saves
NewTask(st) == [st |-> st, docs |-> <<>>, inner |-> ParallelStart(0).g]

\* what a load remembers of the get before it: nothing is remembered
\* (NotKept) unless the behaviour starts with NoPrev
NotKept == [op |-> "notkept", found |-> <<>>]
NoPrev == [op |-> "none", found |-> <<>>]

\* the calls issued so far, per binding, and what they reported; held is
\* what the collection held when it was queried, late counts the task
\* callbacks that arrived after the operation had reported failure
EmptyLog ==
    [reads   |-> [b \in Bindings |-> 0],
     finds   |-> [b \in Bindings |-> <<>>],
     removes |-> [b \in Bindings |-> <<>>],
     saves   |-> [b \in Bindings |-> <<>>],
     writes  |-> [b \in Bindings |-> <<>>],
     acks    |-> [b \in Bindings |-> 0],
     found   |-> [b \in Bindings |-> <<>>],
     removed |-> [b \in Bindings |-> <<>>],
     held    |-> [b \in Bindings |-> <<>>],
     late    |-> 0,
     prev    |-> NotKept]

\* a task callback of binding b reaches the group of load / get / clear
Join(b, err, value) ==
    LET r == ParallelDone(outer, b, err, value)
        f == FinalCallback(op, r.emit, err, r.g.results)
    IN  [outer |-> r.g, cb |-> f.cb, thrown |-> f.thrown]

NoteErr(e) == IF firstErr = NoErr THEN e ELSE firstErr

\* the operation has reported failure to its caller
Failed == cbLog # <<>> /\ ~cbLog[1].hasTotal

\* the operation has reported a total to its caller
Succeeded == cbLog # <<>> /\ cbLog[1].hasTotal

Late(l) == [l EXCEPT !.late = IF Failed THEN @ + 1 ELSE @]

\* a task of binding b has been started and has not called back
SavePending(b, i) ==
    /\ tasks[b].st \in {"saving", "saved", "savefailed"}
    /\ i \in 1..tasks[b].inner.n
    /\ i \notin tasks[b].inner.returned

Pending(b) ==
    \/ tasks[b].st \in {"reading", "finding", "writing", "removing"}
    \/ \E i \in 1..tasks[b].inner.n : SavePending(b, i)

Quiescent == \A b \in DOMAIN tasks : ~Pending(b)

(***************************************************************************)
(* Initial states.                                                           *)
(***************************************************************************)
Str(v) == [t |-> "str", v |-> v]
NotStr == [t |-> "num", v |-> <<>>]
Obj(entries) == [t |-> "obj", v |-> entries]
NotObj == [t |-> "str", v |-> <<>>]
Arr(v) == [t |-> "arr", v |-> v]
NotArr == [t |-> "str", v |-> <<>>]
One(h) == [t |-> "one", v |-> <<h>>]
Entry(key, value) == [key |-> key, value |-> value]

FxName == <<"u">>

\* the values one key can be bound to: one handle, or a list of handles
Lists(S) == UNION {[1..n -> S] : n \in 0..MaxList}
Values(S) == {One(h) : h \in S} \cup {Arr(l) : l \in Lists(S)}

\* the mappings: no key, one key, or two keys in either order
Mappings(S) ==
    {<<>>}
    \cup {<<Entry(k, v)>> : k \in {K1, K2}, v \in Values(S)}
    \cup {<<Entry(K1, v), Entry(K2, w)>> : v \in Values(S), w \in Values(S)}
    \cup {<<Entry(K2, v), Entry(K1, w)>> : v \in Values(S), w \in Values(S)}

ParseHandles == {HUser, HAnon, HAll, HNoSave}

\* the handles with every combination of name, _name and collection._name
NameHandles == {HUser, HSett, HPost, HAnon, HAll, HNameUname, HNameCname,
                HUnameCname}

\* collections is not an object, an array of handles, a mapping over the
\* handles S, or a mapping of one key over the handles T
ParseCollections(S, T) ==
    {NotObj}
    \cup {Arr(l) : l \in Lists(S)}
    \cup {Obj(m) : m \in Mappings(S)}
    \cup {Obj(<<Entry(k, v)>>) : k \in {K1, K2}, v \in Values(T)}

ParseOptions(S, T) ==
    {[name |-> n, collections |-> c, keys |-> k, path |-> <<>>] :
        n \in {Str(FxName), NotStr},
        c \in ParseCollections(S, T),
        k \in {Arr(SomeKeys), NotArr}}

\* the fixtures the operations are run on
OpMappings ==
    { <<>>,
      <<Entry(K1, One(HUser))>>,
      <<Entry(K1, Arr(<<HUser, HSett>>))>>,
      <<Entry(K1, Arr(<<HUser>>)), Entry(K2, Arr(<<HUser>>))>> }

\* every mapping with keys, and the mappings of at most one binding with no
\* key at all
OpOptions ==
    {o \in [name : {Str(FxName)}, collections : {Obj(m) : m \in OpMappings},
            keys : {Arr(<<>>), Arr(SomeKeys)}, path : {<<>>}] :
        o.keys.v = <<>> => Len(constructor(o).obj.fixtures) <= 1}

\* no module is being loaded
NoModule ==
    [filename |-> <<>>, parent |-> FALSE, argv |-> "", callsInit |-> FALSE,
     exports |-> <<>>]

Proc(pc, exit) == [pc |-> pc, exit |-> exit, uses |-> 0]

EmptyIo == [started |-> {}, calls |-> 0, files |-> {}]

NoCli ==
    /\ module = NoModule
    /\ exported = <<>>
    /\ proc = Proc("returned", "none")
    /\ runs = <<>>
    /\ top = ParallelStart(0).g
    /\ io = EmptyIo

Idle ==
    /\ op = "none"
    /\ tasks = <<>>
    /\ outer = ParallelStart(0).g
    /\ cbLog = <<>>
    /\ thrown = <<>>
    /\ halted = FALSE
    /\ firstErr = NoErr
    /\ log = EmptyLog
    /\ ncalls = 0
    /\ calls = <<>>

\* before `new Fixture(options)`
InitParse ==
    /\ options \in ParseOptions(ParseHandles, NameHandles)
    /\ ctor = "pending"
    /\ fixture = NoFixture
    /\ created = <<>>
    /\ files = <<>>
    /\ Idle
    /\ NoCli

\* after a successful `new Fixture(options)`, with some files on disk
Init ==
    /\ options \in OpOptions
    /\ ctor = "ok"
    /\ fixture = constructor(options).obj
    /\ created = constructor(options).created
    /\ files \in [FileNames(fixture) -> FileContents]
    /\ Idle
    /\ NoCli

\* the fixtures of two bindings, with files of their own and with one file
TripOptions == {o \in OpOptions : Len(constructor(o).obj.fixtures) = 2}

\* after a successful `new Fixture(options)`, before any file was written;
\* what get finds is remembered for the load that follows it
InitTrip ==
    /\ options \in TripOptions
    /\ ctor = "ok"
    /\ fixture = constructor(options).obj
    /\ created = constructor(options).created
    /\ files = [f \in FileNames(fixture) |-> Missing]
    /\ op = "none"
    /\ tasks = <<>>
    /\ outer = ParallelStart(0).g
    /\ cbLog = <<>>
    /\ thrown = <<>>
    /\ halted = FALSE
    /\ firstErr = NoErr
    /\ log = [EmptyLog EXCEPT !.prev = NoPrev]
    /\ ncalls = 0
    /\ calls = <<>>
    /\ NoCli

(***************************************************************************)
(* new Fixture(options)                                                      *)
(***************************************************************************)
New ==
    /\ ctor = "pending"
    /\ LET c == constructor(options)
       IN  /\ ctor' = IF c.ok THEN "ok" ELSE "threw"
           /\ fixture' = c.obj
           /\ created' = c.created
    /\ UNCHANGED <<calls, cliVars, options, opVars>>

(***************************************************************************)
(* load(callback), get(callback), clear(callback): the synchronous part.    *)
(* Every binding's task is started; with no binding the group calls its     *)
(* final callback at once.                                                   *)
(***************************************************************************)
FirstStep(o) ==
    CASE o = "load" -> "reading"
      [] o = "get" -> "finding"
      [] OTHER -> "removing"

Invoke(o) ==
    /\ ctor = "ok"
    /\ ~halted
    /\ ncalls < MaxCalls
    /\ Quiescent
    /\ LET start == ParallelStart(NBindings)
           f == FinalCallback(o, start.emit, NoErr, start.g.results)
       IN  /\ op' = o
           /\ tasks' = [b \in Bindings |-> NewTask(FirstStep(o))]
           /\ outer' = start.g
           /\ cbLog' = f.cb
           /\ thrown' = f.thrown
           /\ halted' \in (IF f.thrown = <<>> THEN {FALSE} ELSE BOOLEAN)
    /\ firstErr' = NoErr
    /\ log' = [EmptyLog EXCEPT
                 !.prev = IF log.prev = NotKept THEN NotKept
                          ELSE IF o = "load" /\ op = "get" /\ Succeeded
                          THEN [op |-> op, found |-> log.found]
                          ELSE NoPrev,
                 !.reads = IF o = "load" THEN [b \in Bindings |-> 1] ELSE @,
                 !.finds = IF o = "get"
                           THEN [b \in Bindings |-> <<QueryOf(b)>>] ELSE @,
                 !.removes = IF o = "clear"
                             THEN [b \in Bindings |-> <<QueryOf(b)>>] ELSE @]
    /\ ncalls' = ncalls + 1
    /\ UNCHANGED <<calls, cliVars, options, ctor, fixture, created, files>>

Load == Invoke("load")
Get == Invoke("get")
Clear == Invoke("clear")

\* the callback of task b is called with (err, value): the group of the
\* operation takes it
Callback(b, err, value) ==
    LET j == Join(b, err, value)
    IN  /\ outer' = j.outer
        /\ cbLog' = cbLog \o j.cb
        /\ thrown' = thrown \o j.thrown
        /\ firstErr' = NoteErr(err)

(***************************************************************************)
(* loadDocs: the callback of fs.readFile                                     *)
(***************************************************************************)
ReadDone(b) ==
    /\ op = "load"
    /\ ~halted
    /\ tasks[b].st = "reading"
    /\ LET content == files[FileOf(b)]
       IN  \/ \* the read reports an error
              /\ tasks' = [tasks EXCEPT ![b].st = "failed"]
              /\ Callback(b, Err("read", b, 0), 0)
              /\ log' = Late(log)
              /\ UNCHANGED halted
           \/ \* EJSON.parse throws inside the callback
              /\ content.kind = "garbage"
              /\ tasks' = [tasks EXCEPT ![b].st = "threw"]
              /\ thrown' = Append(thrown, ParseError)
              /\ halted' \in BOOLEAN
              /\ log' = Late(log)
              /\ UNCHANGED <<outer, cbLog, firstErr>>
           \/ \* the text parses: one save per document is started
              /\ content.kind \in {"nonlist", "ejson"}
              /\ LET docs == EJSONparseToArray(content)
                     start == ParallelStart(Len(docs))
                 IN  /\ log' = Late([log EXCEPT !.saves[b] = docs])
                     /\ IF start.emit = "ok"
                        THEN /\ tasks' = [tasks EXCEPT ![b] =
                                  [st |-> "saved", docs |-> docs,
                                   inner |-> start.g]]
                             /\ Callback(b, NoErr,
                                         CountNonNull(start.g.results))
                        ELSE /\ tasks' = [tasks EXCEPT ![b] =
                                  [st |-> "saving", docs |-> docs,
                                   inner |-> start.g]]
                             /\ UNCHANGED <<outer, cbLog, thrown, firstErr>>
              /\ UNCHANGED halted
    /\ UNCHANGED <<calls, cliVars, options, ctor, fixture, created, files, op, ncalls>>

(***************************************************************************)
(* loadDocs: the callback of one collection.save                             *)
(***************************************************************************)
SaveDone(b, i) ==
    /\ op = "load"
    /\ ~halted
    /\ SavePending(b, i)
    /\ \E outcome \in {"ack", "null", "err"} :
         LET e == IF outcome = "err" THEN Err("save", b, i) ELSE NoErr
             r == ParallelDone(tasks[b].inner, i, e, outcome)
         IN  /\ log' = Late([log EXCEPT !.acks[b] =
                                 IF outcome = "ack" THEN @ + 1 ELSE @])
             /\ CASE r.emit = "err" ->
                       /\ tasks' = [tasks EXCEPT ![b].inner = r.g,
                                                 ![b].st = "savefailed"]
                       /\ Callback(b, e, 0)
                  [] r.emit = "ok" ->
                       /\ tasks' = [tasks EXCEPT ![b].inner = r.g,
                                                 ![b].st = "saved"]
                       /\ Callback(b, NoErr, CountNonNull(r.g.results))
                  [] OTHER ->
                       /\ tasks' = [tasks EXCEPT ![b].inner = r.g]
                       /\ firstErr' = NoteErr(e)
                       /\ UNCHANGED <<outer, cbLog, thrown>>
    /\ UNCHANGED <<calls, cliVars, options, ctor, fixture, created, files, op, halted, ncalls>>

(***************************************************************************)
(* findDocs: the callback of collection.find, which calls writeDocs          *)
(***************************************************************************)
FindDone(b) ==
    /\ op = "get"
    /\ ~halted
    /\ tasks[b].st = "finding"
    /\ \/ /\ tasks' = [tasks EXCEPT ![b].st = "failed"]
          /\ Callback(b, Err("find", b, 0), 0)
          /\ log' = Late(log)
       \/ \E stored \in Stored(MaxDocs) :
            LET docs == Find(QueryOf(b), stored)
            IN  /\ tasks' = [tasks EXCEPT ![b].st = "writing", ![b].docs = docs]
                /\ log' = Late([log EXCEPT
                             !.held[b] = stored,
                             !.found[b] = Append(@, docs),
                             !.writes[b] = Append(@,
                                 [file |-> FileOf(b),
                                  data |-> EJSONstringify(docs)])])
                /\ UNCHANGED <<outer, cbLog, thrown, firstErr>>
    /\ UNCHANGED <<calls, cliVars, options, ctor, fixture, created, files, op, halted, ncalls>>

(***************************************************************************)
(* writeDocs: the callback of fs.writeFile                                   *)
(***************************************************************************)
WriteDone(b) ==
    /\ op = "get"
    /\ ~halted
    /\ tasks[b].st = "writing"
    /\ LET docs == tasks[b].docs
       IN  \/ /\ files' = [files EXCEPT ![FileOf(b)] = EJSONstringify(docs)]
              /\ tasks' = [tasks EXCEPT ![b].st = "written"]
              /\ Callback(b, NoErr, Len(docs))
           \/ \* a failed write leaves the file as it was, or corrupt
              /\ files' \in {files, [files EXCEPT ![FileOf(b)] = Garbage]}
              /\ tasks' = [tasks EXCEPT ![b].st = "failed"]
              /\ Callback(b, Err("write", b, 0), Len(docs))
    /\ log' = Late(log)
    /\ UNCHANGED <<calls, cliVars, options, ctor, fixture, created, op, halted, ncalls>>

(***************************************************************************)
(* clearDocs: the callback of collection.remove is the task's callback       *)
(***************************************************************************)
RemoveDone(b) ==
    /\ op = "clear"
    /\ ~halted
    /\ tasks[b].st = "removing"
    /\ \/ /\ tasks' = [tasks EXCEPT ![b].st = "failed"]
          /\ Callback(b, Err("remove", b, 0), [n |-> 0])
          /\ log' = Late(log)
       \/ \E stored \in Stored(MaxN) :
            LET k == Len(Find(QueryOf(b), stored))
            IN  /\ tasks' = [tasks EXCEPT ![b].st = "removed"]
                /\ Callback(b, NoErr, [n |-> k])
                /\ log' = Late([log EXCEPT !.held[b] = stored,
                                           !.removed[b] = Append(@, k)])
    /\ UNCHANGED <<calls, cliVars, options, ctor, fixture, created, files, op, halted, ncalls>>

(***************************************************************************)
(* Overlapping invocations of load, get and clear on one Fixture.  Every    *)
(* invocation has its own async.parallel groups and its own callback; the   *)
(* invocations share the files.  An invocation is a record of               *)
(*   op      the operation                                                  *)
(*   tasks   per binding, the state of its task                             *)
(*   outer   the group of the operation                                     *)
(*   cb      the calls made to its callback, in order                       *)
(*   threw   an exception was thrown in it                                   *)
(***************************************************************************)
\* the rest of the state, which the overlapping invocations leave alone
restVars == <<cliVars, options, ctor, fixture, created, op, tasks, outer,
              cbLog, thrown, firstErr, log, ncalls>>

\* load(callback) / get(callback) / clear(callback): the synchronous part
StartCall(o) ==
    LET start == ParallelStart(NBindings)
        f == FinalCallback(o, start.emit, NoErr, start.g.results)
    IN  [op |-> o,
         tasks |-> [b \in Bindings |-> NewTask(FirstStep(o))],
         outer |-> start.g,
         cb |-> f.cb,
         threw |-> f.thrown # <<>>]

\* the callback of task b of invocation inv is called with (err, value)
CallJoin(inv, b, err, value) ==
    LET r == ParallelDone(inv.outer, b, err, value)
        f == FinalCallback(inv.op, r.emit, err, r.g.results)
    IN  [inv EXCEPT !.outer = r.g, !.cb = @ \o f.cb]

\* what a collection holds when an invocation reaches it: no document that
\* matches, or one
OverlapStored == {DocList(n) \o <<Stray>> : n \in 0..1}

CallSavePending(inv, b, i) ==
    /\ inv.tasks[b].st \in {"saving", "saved", "savefailed"}
    /\ i \in 1..inv.tasks[b].inner.n
    /\ i \notin inv.tasks[b].inner.returned

Start(o) ==
    /\ ctor = "ok"
    /\ ~halted
    /\ Len(calls) < 2
    /\ calls' = Append(calls, StartCall(o))
    /\ halted' \in (IF StartCall(o).threw THEN BOOLEAN ELSE {FALSE})
    /\ UNCHANGED <<files, restVars>>

\* loadDocs: the callback of fs.readFile
CallReadDone(c, b) ==
    /\ ~halted
    /\ calls[c].op = "load"
    /\ calls[c].tasks[b].st = "reading"
    /\ LET inv == calls[c]
           content == files[FileOf(b)]
           docs == EJSONparseToArray(content)
           start == ParallelStart(Len(docs))
           saving == [inv EXCEPT !.tasks[b] =
                        [st |-> IF start.emit = "ok" THEN "saved" ELSE "saving",
                         docs |-> docs, inner |-> start.g]]
       IN  \/ /\ calls' = [calls EXCEPT ![c] =
                    CallJoin([inv EXCEPT !.tasks[b].st = "failed"], b,
                             Err("read", b, 0), 0)]
              /\ UNCHANGED halted
           \/ /\ content.kind = "garbage"
              /\ calls' = [calls EXCEPT ![c] =
                    [inv EXCEPT !.tasks[b].st = "threw", !.threw = TRUE]]
              /\ halted' \in BOOLEAN
           \/ /\ content.kind \in {"nonlist", "ejson"}
              /\ calls' = [calls EXCEPT ![c] =
                    IF start.emit = "ok"
                    THEN CallJoin(saving, b, NoErr,
                                  CountNonNull(start.g.results))
                    ELSE saving]
              /\ UNCHANGED halted
    /\ UNCHANGED <<files, restVars>>

\* loadDocs: the callback of one collection.save, which reports the saved
\* document or an error
CallSaveDone(c, b, i) ==
    /\ ~halted
    /\ calls[c].op = "load"
    /\ CallSavePending(calls[c], b, i)
    /\ \E outcome \in {"ack", "err"} :
         LET inv == calls[c]
             e == IF outcome = "err" THEN Err("save", b, i) ELSE NoErr
             r == ParallelDone(inv.tasks[b].inner, i, e, outcome)
             next == [inv EXCEPT !.tasks[b].inner = r.g]
         IN  calls' = [calls EXCEPT ![c] =
                CASE r.emit = "err" ->
                       CallJoin([next EXCEPT !.tasks[b].st = "savefailed"],
                                b, e, 0)
                  [] r.emit = "ok" ->
                       CallJoin([next EXCEPT !.tasks[b].st = "saved"],
                                b, NoErr, CountNonNull(r.g.results))
                  [] OTHER -> next]
    /\ UNCHANGED <<files, halted, restVars>>

\* findDocs: the callback of collection.find, which calls writeDocs
CallFindDone(c, b) ==
    /\ ~halted
    /\ calls[c].op = "get"
    /\ calls[c].tasks[b].st = "finding"
    /\ LET inv == calls[c]
       IN  \/ calls' = [calls EXCEPT ![c] =
                 CallJoin([inv EXCEPT !.tasks[b].st = "failed"], b,
                          Err("find", b, 0), 0)]
           \/ \E stored \in OverlapStored :
                 calls' = [calls EXCEPT ![c] =
                    [inv EXCEPT !.tasks[b].st = "writing",
                                !.tasks[b].docs = Find(QueryOf(b), stored)]]
    /\ UNCHANGED <<files, halted, restVars>>

\* writeDocs: the callback of fs.writeFile
CallWriteDone(c, b) ==
    /\ ~halted
    /\ calls[c].op = "get"
    /\ calls[c].tasks[b].st = "writing"
    /\ LET inv == calls[c]
           docs == inv.tasks[b].docs
       IN  \/ /\ files' = [files EXCEPT ![FileOf(b)] = EJSONstringify(docs)]
              /\ calls' = [calls EXCEPT ![c] =
                    CallJoin([inv EXCEPT !.tasks[b].st = "written"], b,
                             NoErr, Len(docs))]
           \/ /\ files' \in {files, [files EXCEPT ![FileOf(b)] = Garbage]}
              /\ calls' = [calls EXCEPT ![c] =
                    CallJoin([inv EXCEPT !.tasks[b].st = "failed"], b,
                             Err("write", b, 0), Len(docs))]
    /\ UNCHANGED <<halted, restVars>>

\* clearDocs: the callback of collection.remove is the task's callback
CallRemoveDone(c, b) ==
    /\ ~halted
    /\ calls[c].op = "clear"
    /\ calls[c].tasks[b].st = "removing"
    /\ LET inv == calls[c]
       IN  \/ calls' = [calls EXCEPT ![c] =
                 CallJoin([inv EXCEPT !.tasks[b].st = "failed"], b,
                          Err("remove", b, 0), [n |-> 0])]
           \/ \E stored \in OverlapStored :
                 calls' = [calls EXCEPT ![c] =
                    CallJoin([inv EXCEPT !.tasks[b].st = "removed"], b, NoErr,
                             [n |-> Len(Find(QueryOf(b), stored))])]
    /\ UNCHANGED <<files, halted, restVars>>

\* the fixtures the overlapping invocations are run on: those with keys whose
\* bindings each have a file of their own
OverlapOptions ==
    {o \in OpOptions :
        /\ o.keys.v # <<>>
        /\ Cardinality(FileNames(constructor(o).obj))
             = Len(constructor(o).obj.fixtures)}

\* the number of documents the files hold in all
RECURSIVE Held(_, _)
Held(f, names) ==
    IF names = {} THEN 0
    ELSE LET x == CHOOSE y \in names : TRUE
         IN  Len(f[x].text) + Held(f, names \ {x})

\* files that EJSON.parse rejects and files of document lists, of at most
\* MaxDocs documents in all
OverlapFiles(fx) ==
    {f \in [FileNames(fx) ->
               {Garbage} \cup {EJSONstringify(DocList(n)) : n \in 0..MaxDocs}] :
        Held(f, FileNames(fx)) <= MaxDocs}

InitOverlap ==
    /\ options \in OverlapOptions
    /\ ctor = "ok"
    /\ fixture = constructor(options).obj
    /\ created = constructor(options).created
    /\ files \in OverlapFiles(fixture)
    /\ Idle
    /\ NoCli

(***************************************************************************)
(* The fixture-defining module: Fixture.init, Fixture.getFixtures,          *)
(* Fixture.main, Fixture.loadAll and Fixture.getAll.                        *)
(***************************************************************************)
\* a value of module.exports: a Fixture, or something else
Exported(obj) == [isFixture |-> TRUE, obj |-> obj]
NotAFixture == [isFixture |-> FALSE, obj |-> NoFixture]

Range(s) == {s[i] : i \in DOMAIN s}

\* _.each(exports, ...) from position i on: names are the names seen, found
\* the positions of the Fixtures collected
RECURSIVE getFixturesFrom(_, _, _, _)
getFixturesFrom(exp, i, names, found) ==
    IF i > Len(exp) THEN [threw |-> FALSE, fixtures |-> found]
    ELSE IF ~exp[i].isFixture THEN getFixturesFrom(exp, i + 1, names, found)
    ELSE IF exp[i].obj.name \in names
    THEN [threw |-> TRUE, fixtures |-> <<>>]
    ELSE getFixturesFrom(exp, i + 1, names \cup {exp[i].obj.name},
                         Append(found, i))

getFixturesNoCheck(exp) ==
    [threw |-> FALSE,
     fixtures |-> SelectSeq([i \in DOMAIN exp |-> i],
                            LAMBDA i : exp[i].isFixture)]

getFixtures(exp) == getFixturesFrom(exp, 1, {}, <<>>)

dirnameWhole(p) == p

\* path.dirname(p) of a file name
dirname(p) ==
    LET slashes == {i \in DOMAIN p : p[i] = "/"}
    IN  IF slashes = {} THEN Dot
        ELSE LET last == CHOOSE i \in slashes : \A j \in slashes : j <= i
             IN  IF last = 1 THEN Slash ELSE SubSeq(p, 1, last - 1)

InitPathAlways(exp, found, fname) ==
    IF fname = <<>> THEN exp
    ELSE [i \in DOMAIN exp |->
            IF i \in Range(found)
            THEN [exp[i] EXCEPT !.obj.path = dirname(fname)]
            ELSE exp[i]]

\* init: the fixtures that do not specify a path get the module's directory
InitPath(exp, found, fname) ==
    IF fname = <<>> THEN exp
    ELSE [i \in DOMAIN exp |->
            IF i \in Range(found) /\ exp[i].obj.path = <<>>
            THEN [exp[i] EXCEPT !.obj.path = dirname(fname)]
            ELSE exp[i]]

\* {'load': Fixture.loadAll, 'get': Fixture.getAll}[cmd]: a property the
\* object literal inherits is found too.  "returns" is an inherited function
\* that returns when called with the fixtures (constructor, toString),
\* "throws" an inherited value whose call throws (valueOf, __proto__)
Lookup(cmd) ==
    CASE cmd = "load" -> "loadAll"
      [] cmd = "get" -> "getAll"
      [] cmd \in {"constructor", "toString"} -> "returns"
      [] cmd \in {"valueOf", "__proto__"} -> "throws"
      [] OTHER -> "undefined"

\* the operation running on one exported value
NoRun == [op |-> "none", group |-> ParallelStart(0).g, cb |-> <<>>,
          threw |-> FALSE]

\* fixture.load(callback) / get / clear: the synchronous part
StartRun(o, fx) ==
    LET start == ParallelStart(Len(fx.fixtures))
        f == FinalCallback(o, start.emit, NoErr, start.g.results)
    IN  [op |-> o, group |-> start.g, cb |-> f.cb, threw |-> f.thrown # <<>>]

FileUse(i, b, fx) ==
    [f |-> i, b |-> b, file |-> filename(fx, fx.fixtures[b].name)]

\* the calls the synchronous part of operation o on exported value i issues:
\* one read, find or remove per binding
IoStart(now, i, o, fx) ==
    [started |-> now.started \cup {<<i, o>>},
     calls |-> now.calls + Len(fx.fixtures),
     files |-> now.files \cup
               (IF o = "load"
                THEN {FileUse(i, b, fx) : b \in DOMAIN fx.fixtures}
                ELSE {})]

\* async.parallel(_.map(fixtures, ...)) calls the operation of each fixture
\* in turn, from the k-th on; an operation that throws ends the iteration
RECURSIVE StartAllFrom(_, _, _, _, _)
StartAllFrom(o, exp, found, k, acc) ==
    IF k > Len(found) THEN acc
    ELSE LET i == found[k]
             r == StartRun(o, exp[i].obj)
             next == [runs |-> [acc.runs EXCEPT ![i] = r],
                      io |-> IoStart(acc.io, i, o, exp[i].obj),
                      threw |-> r.threw]
         IN  IF r.threw THEN next
             ELSE StartAllFrom(o, exp, found, k + 1, next)

TopFinalExitZero(emit, results) ==
    IF emit = "none" THEN "none" ELSE "exit0"

\* the final callback of loadAll / getAll: throw err, or reduce the results
\* and process.exit(0)
TopFinal(emit, results) ==
    IF emit = "none" THEN "none"
    ELSE IF emit = "err" THEN "throw"
    ELSE IF results = <<>> THEN "throw"
    ELSE "exit0"

\* an exception nobody catches ends the process with a nonzero status
After(now, fin) ==
    CASE fin = "throw" -> [now EXCEPT !.pc = "exited", !.exit = "nonzero"]
      [] fin = "exit0" -> [now EXCEPT !.pc = "exited", !.exit = "0"]
      [] OTHER -> now

PositionIn(found, i) == CHOOSE k \in DOMAIN found : found[k] = i

TaskPending(i, b) ==
    /\ runs[i].op # "none"
    /\ b \in 1..runs[i].group.n
    /\ b \notin runs[i].group.returned

Running == \E i \in DOMAIN runs : \E b \in 1..MaxList : TaskPending(i, b)

\* how the task of one binding can end: it calls back with a count, it calls
\* back with an error, or (loadDocs) EJSON.parse throws
TaskValue(o, k) == IF o = "clear" THEN [n |-> k] ELSE k

TaskOutcomes(o) ==
    {[kind |-> "ok", value |-> TaskValue(o, k)] : k \in {0, MaxN}}
    \cup {[kind |-> "err", value |-> TaskValue(o, 0)]}
    \cup (IF o = "load" THEN {[kind |-> "threw", value |-> 0]} ELSE {})

(***************************************************************************)
(* Modules examined.                                                         *)
(***************************************************************************)
OtherName == <<"v">>
ModuleFile == <<"/", "t", "/", "m">>
ExplicitPath == <<"/", "p">>
Args == {"load", "get", "clear", "", "constructor", "valueOf"}

CliOptions ==
    {[name |-> Str(n), collections |-> Obj(m), keys |-> Arr(SomeKeys),
      path |-> p] :
        n \in {FxName, OtherName},
        m \in {<<>>, <<Entry(K1, One(HUser))>>,
               <<Entry(K1, Arr(<<HUser, HSett>>))>>},
        p \in {<<>>, ExplicitPath}}

ExportedValues == {Exported(constructor(o).obj) : o \in CliOptions}
                      \cup {NotAFixture}

ExportLists ==
    {<<>>} \cup {<<x>> : x \in ExportedValues}
           \cup {<<x, y>> : x \in ExportedValues, y \in ExportedValues}

Modules ==
    {m \in [filename : {<<>>, ModuleFile}, parent : BOOLEAN, argv : Args,
            callsInit : BOOLEAN, exports : ExportLists] :
        /\ m.parent => m.argv = ""
        /\ ~m.callsInit => m.argv = ""}

NoLib ==
    /\ options = [name |-> Str(FxName), collections |-> Obj(<<>>),
                  keys |-> Arr(<<>>), path |-> <<>>]
    /\ ctor = "pending"
    /\ fixture = NoFixture
    /\ created = <<>>
    /\ files = <<>>
    /\ Idle

\* the module's body has built its exports; Fixture.init(module), if the
\* module calls it, is about to run
InitCli ==
    /\ NoLib
    /\ module \in Modules
    /\ exported = module.exports
    /\ proc = Proc(IF module.callsInit THEN "start"
                   ELSE IF module.parent THEN "ready" ELSE "returned",
                   "none")
    /\ runs = [i \in DOMAIN module.exports |-> NoRun]
    /\ top = ParallelStart(0).g
    /\ io = EmptyIo

(***************************************************************************)
(* Fixture.init(module), and Fixture.main(module) when the module is run    *)
(***************************************************************************)
InitCall ==
    /\ proc.pc = "start"
    /\ LET g == getFixtures(exported)
           exp2 == InitPath(exported, g.fixtures, module.filename)
           cmd == Lookup(module.argv)
           o == IF cmd = "loadAll" THEN "load" ELSE "get"
           all == StartAllFrom(o, exp2, g.fixtures, 1,
                               [runs |-> runs, io |-> io, threw |-> FALSE])
           start == ParallelStart(Len(g.fixtures))
       IN  IF g.threw
           THEN /\ proc' = IF module.parent
                           THEN [proc EXCEPT !.pc = "failed"]
                           ELSE After(proc, "throw")
                /\ UNCHANGED <<exported, runs, top, io>>
           ELSE /\ exported' = exp2
                /\ IF module.parent
                   THEN /\ proc' = [proc EXCEPT !.pc = "ready"]
                        /\ UNCHANGED <<runs, top, io>>
                   ELSE IF cmd \in {"loadAll", "getAll"}
                   THEN /\ runs' = all.runs
                        /\ io' = all.io
                        /\ top' = start.g
                        /\ proc' = IF all.threw
                                   THEN After(proc, "throw")
                                   ELSE After([proc EXCEPT !.pc = "running"],
                                              TopFinal(start.emit,
                                                       start.g.results))
                   ELSE /\ proc' = IF cmd = "returns"
                                   THEN [proc EXCEPT !.pc = "returned"]
                                   ELSE IF cmd = "throws"
                                   THEN After(proc, "throw")
                                   ELSE [proc EXCEPT !.pc = "exited",
                                                     !.exit = "nonzero"]
                        /\ UNCHANGED <<runs, top, io>>
    /\ UNCHANGED <<module, libVars, calls>>

\* main has returned and nothing is in flight: the process ends
Drain ==
    /\ proc.pc = "returned"
    /\ proc' = [proc EXCEPT !.pc = "exited", !.exit = "0"]
    /\ UNCHANGED <<module, exported, runs, top, io, libVars, calls>>

\* a module that imported the fixtures calls load, get or clear on one; runs
\* and io keep the operation in flight only
Use(i, o) ==
    /\ proc.pc = "ready"
    /\ proc.uses < MaxCalls
    /\ i \in DOMAIN exported
    /\ exported[i].isFixture
    /\ ~Running
    /\ LET r == StartRun(o, exported[i].obj)
       IN  /\ runs' = [j \in DOMAIN runs |-> IF j = i THEN r ELSE NoRun]
           /\ io' = IoStart(EmptyIo, i, o, exported[i].obj)
           /\ proc' \in {[proc EXCEPT !.uses = @ + 1, !.pc = pc] :
                            pc \in IF r.threw THEN {"ready", "crashed"}
                                   ELSE {"ready"}}
    /\ UNCHANGED <<module, exported, top, libVars, calls>>

\* the task of binding b of exported value i ends
TaskDone(i, b) ==
    /\ proc.pc \in {"ready", "running"}
    /\ i \in DOMAIN runs
    /\ TaskPending(i, b)
    /\ \E out \in TaskOutcomes(runs[i].op) :
         LET o == runs[i].op
             fx == exported[i].obj
             e == IF out.kind = "err" THEN Err(o, b, 0) ELSE NoErr
             r == ParallelDone(runs[i].group, b, e, out.value)
             f == FinalCallback(o, r.emit, e, r.g.results)
             found == getFixtures(exported).fixtures
             t == ParallelDone(top, PositionIn(found, i), f.cb[1].err,
                               f.cb[1].total)
         IN  IF out.kind = "threw"
             THEN /\ runs' = [runs EXCEPT ![i].group.returned = @ \cup {b},
                                          ![i].threw = TRUE]
                  /\ proc' \in IF proc.pc = "running"
                               THEN {After(proc, "throw")}
                               ELSE {proc, [proc EXCEPT !.pc = "crashed"]}
                  /\ UNCHANGED <<top, io>>
             ELSE /\ runs' = [runs EXCEPT ![i].group = r.g,
                                          ![i].cb = @ \o f.cb]
                  /\ io' = [io EXCEPT !.files = @ \cup
                               (IF o = "get" /\ out.kind = "ok"
                                THEN {FileUse(i, b, fx)} ELSE {})]
                  /\ IF proc.pc = "running" /\ f.cb # <<>>
                     THEN /\ top' = t.g
                          /\ proc' = After(proc, TopFinal(t.emit, t.g.results))
                     ELSE UNCHANGED <<top, proc>>
    /\ UNCHANGED <<module, exported, libVars, calls>>

(***************************************************************************)
(* Specifications.                                                           *)
(***************************************************************************)
Next ==
    \/ Load
    \/ Get
    \/ Clear
    \/ \E b \in Bindings : ReadDone(b)
    \/ \E b \in Bindings : \E i \in 1..MaxDocs : SaveDone(b, i)
    \/ \E b \in Bindings : FindDone(b)
    \/ \E b \in Bindings : WriteDone(b)
    \/ \E b \in Bindings : RemoveDone(b)

Spec == Init /\ [][Next]_vars

SpecTrip == InitTrip /\ [][Next]_vars

NextOverlap ==
    \/ \E o \in {"load", "get", "clear"} : Start(o)
    \/ \E c \in DOMAIN calls : \E b \in Bindings : CallReadDone(c, b)
    \/ \E c \in DOMAIN calls : \E b \in Bindings :
          \E i \in 1..MaxDocs : CallSaveDone(c, b, i)
    \/ \E c \in DOMAIN calls : \E b \in Bindings : CallFindDone(c, b)
    \/ \E c \in DOMAIN calls : \E b \in Bindings : CallWriteDone(c, b)
    \/ \E c \in DOMAIN calls : \E b \in Bindings : CallRemoveDone(c, b)

SpecOverlap == InitOverlap /\ [][NextOverlap]_vars

\* a file read, file write, find, save or remove reports back
Reports ==
    \/ \E b \in Bindings : ReadDone(b)
    \/ \E b \in Bindings : \E i \in 1..MaxDocs : SaveDone(b, i)
    \/ \E b \in Bindings : FindDone(b)
    \/ \E b \in Bindings : WriteDone(b)
    \/ \E b \in Bindings : RemoveDone(b)

\* every call that was issued eventually reports back
SpecLive == Init /\ [][Next]_vars /\ WF_vars(Reports)

NextParse == New

SpecParse == InitParse /\ [][NextParse]_vars

NextCli ==
    \/ InitCall
    \/ Drain
    \/ \E i \in 1..2 : \E o \in {"load", "get", "clear"} : Use(i, o)
    \/ \E i \in 1..2 : \E b \in 1..MaxList : TaskDone(i, b)

SpecCli == InitCli /\ [][NextCli]_vars

(***************************************************************************)
(* Properties of load, get and clear (specification Spec).                   *)
(***************************************************************************)
\* the bindings whose task has called back with an error
FailedTasks == {b \in DOMAIN tasks : tasks[b].st \in {"failed", "savefailed"}}

\* C1: once any file read, file write, find, save or remove of the operation
\* has reported an error, the caller's callback has been called exactly with
\* the first error reported, and with no total.
C1_FirstErrorVerbatim ==
    firstErr # NoErr => cbLog = <<CallErr(firstErr)>>

\* two tasks have failed, the caller got the first of the two errors
C1_Witness ==
    /\ Cardinality(FailedTasks) >= 2
    /\ cbLog = <<CallErr(firstErr)>>

\* C2: load, get and clear on a Fixture with no binding call the callback
\* with no error and a total of 0.
C2_EmptyGivesZero ==
    (op # "none" /\ NBindings = 0) => cbLog = <<CallOk(0)>>

\* the file of binding b is missing or does not hold a document list
Unreadable(b) == files[FileOf(b)].kind \in {"missing", "garbage", "nonlist"}

\* C3: during load, once the read of a missing or malformed file has come
\* back, load's callback has received an error (never a total) and no save
\* has been issued for that binding.
C3_BadFileIsError ==
    \A b \in Bindings :
        (op = "load" /\ tasks[b].st # "reading" /\ Unreadable(b))
            => /\ Failed
               /\ log.saves[b] = <<>>

\* C4: when load completes without error, the total is the sum over the
\* bindings of the number of saves that reported a non-null result.
C4_TotalCountsNonNull ==
    (op = "load" /\ Succeeded) => cbLog[1].total = SumSeq(log.acks)

\* load succeeded although one save reported null: the total is smaller than
\* the number of saves issued
C4_Witness ==
    /\ op = "load"
    /\ Succeeded
    /\ cbLog[1].total > 0
    /\ cbLog[1].total < SumSeq([b \in Bindings |-> Len(log.saves[b])])

\* the read of binding b's file has come back with the file's text
ReadOk(b) == op = "load" /\ tasks[b].st \in {"saving", "saved", "savefailed"}

\* number of documents stored in the files, binding by binding
StoredCounts == [b \in Bindings |-> Len(files[FileOf(b)].text)]

\* C5: for every binding whose file was read, the saves issued are the
\* documents stored in the file, one save each and in the file's order; a
\* load that reports a total after every save was acknowledged reports the
\* number of stored documents, and with at least one binding it reports it
\* in the step in which the last save is acknowledged.
C5_OneSavePerDocument ==
    /\ \A b \in Bindings :
         ReadOk(b) =>
            /\ Len(log.saves[b]) = Len(files[FileOf(b)].text)
            /\ \A i \in 1..Len(log.saves[b]) :
                  files[FileOf(b)].text[i] = <<"{", log.saves[b][i], "}">>
    /\ ( /\ op = "load"
         /\ Succeeded
         /\ \A b \in Bindings : log.acks[b] = Len(log.saves[b]) )
       => cbLog[1].total = SumSeq(StoredCounts)
    /\ ( /\ NBindings > 0
         /\ \A b \in Bindings : ReadOk(b) /\ log.acks[b] = Len(log.saves[b]) )
       => cbLog = <<CallOk(SumSeq(StoredCounts))>>

\* two bindings holding one and two documents: three saves, total 3
C5_Witness ==
    /\ op = "load"
    /\ NBindings = 2
    /\ Len(log.saves[1]) + Len(log.saves[2]) = 2 + 1
    /\ Len(log.saves[1]) # Len(log.saves[2])
    /\ cbLog = <<CallOk(2 + 1)>>

\* the set-membership predicate for binding b, written out
InPredicate(b) ==
    [key |-> fixture.fixtures[b].key, operator |-> "$in", values |-> fixture.keys]

\* the file of binding b, written out (no path was given)
OwnFile(b) == DefaultDir \o Slash \o fixture.fixtures[b].name \o Extension

\* C6: get issues exactly one find per binding, with the set-membership
\* predicate of the binding's key and the fixture's keys; the documents found
\* for a binding are written to that binding's file; a get that reports a
\* total reports the number of documents found, and with at least one
\* binding it reports it in the step in which the last write succeeds.
C6_GetFindsWritesSums ==
    op = "get" =>
        /\ \A b \in Bindings :
             /\ log.finds[b] = <<InPredicate(b)>>
             /\ tasks[b].st \in {"writing", "written"} =>
                  /\ Len(log.found[b]) = 1
                  /\ log.writes[b] = <<[file |-> OwnFile(b),
                                        data |-> EJSONstringify(log.found[b][1])]>>
             /\ ( /\ tasks[b].st = "written"
                  /\ \A c \in Bindings \ {b} : OwnFile(c) # OwnFile(b) )
                  => files[OwnFile(b)] = EJSONstringify(log.found[b][1])
        /\ Succeeded =>
             cbLog[1].total = SumSeq([b \in Bindings |-> Len(log.found[b][1])])
        /\ (NBindings > 0 /\ \A b \in Bindings : tasks[b].st = "written")
             => cbLog = <<CallOk(SumSeq([b \in Bindings |->
                                            Len(log.found[b][1])]))>>

\* two bindings with files of their own, 2 and 1 documents found, total 3
C6_Witness ==
    /\ op = "get"
    /\ NBindings = 2
    /\ OwnFile(1) # OwnFile(2)
    /\ \A b \in Bindings : tasks[b].st = "written"
    /\ Len(log.found[1][1]) = 2
    /\ Len(log.found[2][1]) = 1
    /\ files[OwnFile(1)] = EJSONstringify(DocList(2))
    /\ cbLog = <<CallOk(2 + 1)>>

\* C7: clear issues exactly one remove per binding, with the predicate get
\* uses (and no find, no save); a clear that reports a total reports the sum
\* of the counts n the removes reported, and with at least one binding it
\* reports it in the step in which the last remove succeeds.
C7_ClearSumsReportedN ==
    op = "clear" =>
        /\ \A b \in Bindings : log.removes[b] = <<InPredicate(b)>>
        /\ \A b \in Bindings : log.finds[b] = <<>> /\ log.saves[b] = <<>>
        /\ Succeeded =>
             cbLog[1].total = SumSeq([b \in Bindings |-> log.removed[b][1]])
        /\ (NBindings > 0 /\ \A b \in Bindings : tasks[b].st = "removed")
             => cbLog = <<CallOk(SumSeq([b \in Bindings |-> log.removed[b][1]]))>>

\* two removes reporting n = 2 and n = 0: the total is 2, not the number of
\* bindings
C7_Witness ==
    /\ op = "clear"
    /\ NBindings = 2
    /\ log.removed[1] = <<2>>
    /\ log.removed[2] = <<0>>
    /\ cbLog = <<CallOk(2)>>

\* C8: after the operation has reported failure, a started task is never
\* cancelled (it stops being in flight only by calling back), no file changes
\* except by the write of a task in flight, no call is issued twice, and load
\* and get issue no remove.
C8_NoCancelNoRollback ==
    [][(Failed /\ ncalls' = ncalls) =>
        /\ \A b \in Bindings :
             /\ \A i \in 1..MaxDocs :
                  (SavePending(b, i) /\ ~SavePending(b, i)')
                     => tasks'[b].inner.returned =
                            tasks[b].inner.returned \cup {i}
             /\ log.saves[b] # <<>> => log'.saves[b] = log.saves[b]
             /\ log'.reads[b] <= 1
             /\ Len(log'.finds[b]) <= 1
             /\ Len(log'.writes[b]) <= 1
             /\ op \in {"load", "get"} => log'.removes[b] = <<>>
             /\ log'.acks[b] >= log.acks[b]
        /\ \A f \in DOMAIN files :
             files'[f] # files[f] =>
                \E b \in Bindings :
                    /\ FileOf(b) = f
                    /\ tasks[b].st = "writing"
                    /\ tasks'[b].st \in {"written", "failed"}
    ]_vars

\* load reported failure and a save was acknowledged afterwards
C8_Witness ==
    /\ op = "load"
    /\ Failed
    /\ NBindings = 1
    /\ log.late > 0
    /\ tasks[1].st = "savefailed"
    /\ log.acks[1] > 0

(***************************************************************************)
(* Properties of the constructor (specification SpecParse).                  *)
\* the documents a collection can hold
Universe == {Doc(i) : i \in 1..MaxDocs} \cup {Stray}

\* the value of d under the key of binding b is one of the fixture's keys
InValues(b, d) ==
    \E i \in DOMAIN fixture.keys :
        d.fields[fixture.fixtures[b].key] = fixture.keys[i]

C20_RoundTrip ==
    (op = "load" /\ log.prev.op = "get") =>
        \A b \in Bindings :
            ReadOk(b) => log.saves[b] = log.prev.found[b][1]

(***************************************************************************)
\* number of collections bound to one key
SizeOf(value) == IF value.t = "one" THEN 1 ELSE Len(value.v)

\* the (key, collection) pairs of a mapping, entry by entry, list order within
RECURSIVE PairsOf(_)
PairsOf(entries) ==
    IF entries = <<>> THEN <<>>
    ELSE LET e == Head(entries)
         IN  [i \in 1..SizeOf(e.value) |->
                 [key |-> e.key, collection |-> e.value.v[i], index |-> i - 1]]
             \o PairsOf(Tail(entries))

\* some bound collection lacks find, save or remove
SomeLacking ==
    /\ options.collections.t = "obj"
    /\ \E p \in DOMAIN PairsOf(options.collections.v) :
          PairsOf(options.collections.v)[p].collection.caps # AllCaps

\* C9 as stated: when a bound collection lacks find, save or remove the
\* construction fails before any Binding has been created, and a constructed
\* Fixture has the three operations on every binding's collection.
C9_FailsBeforeAnyBinding ==
    /\ (ctor # "pending" /\ options.name.t = "str" /\ SomeLacking)
          => (ctor = "threw" /\ created = <<>>)
    /\ ctor = "ok" =>
          \A b \in DOMAIN fixture.fixtures :
              fixture.fixtures[b].collection.caps = AllCaps

\* C9 amended: when a bound collection lacks find, save or remove the
\* construction fails and leaves no Fixture and no binding list (the Bindings
\* parse had created for the collections before the lacking one are dropped
\* with its local list), and a constructed Fixture has the three operations
\* on every binding's collection.
C9_FailsWithNothingObservable ==
    /\ (ctor # "pending" /\ options.name.t = "str" /\ SomeLacking)
          => /\ ctor = "threw"
             /\ fixture = NoFixture
             /\ \A b \in DOMAIN created : created[b].collection.caps = AllCaps
    /\ ctor = "ok" =>
          /\ fixture.fixtures = created
          /\ \A b \in DOMAIN fixture.fixtures :
                fixture.fixtures[b].collection.caps = AllCaps

\* the second of two collections lacks save: one Binding had been created
\* when the construction failed
C9_Witness ==
    /\ ctor = "threw"
    /\ SomeLacking
    /\ created # <<>>
    /\ fixture = NoFixture

\* C10: a successful parse gives one Binding per (key, collection) pair, in
\* the order of the mapping's entries and, within a key, in list order; a
\* single handle counts as a list of one.
C10_OneBindingPerPair ==
    (ctor = "ok" /\ options.collections.t = "obj") =>
        LET pairs == PairsOf(options.collections.v)
        IN  /\ Len(fixture.fixtures) =
                  SumSeq([e \in DOMAIN options.collections.v |->
                             SizeOf(options.collections.v[e].value)])
            /\ \A p \in DOMAIN fixture.fixtures :
                  /\ fixture.fixtures[p].key = pairs[p].key
                  /\ fixture.fixtures[p].collection = pairs[p].collection

\* a single handle under one key and a list of two under the other
C10_Witness ==
    /\ ctor = "ok"
    /\ options.collections.t = "obj"
    /\ Len(options.collections.v) = 2
    /\ options.collections.v[1].value.t = "one"
    /\ options.collections.v[2].value.t = "arr"
    /\ Len(fixture.fixtures) = 3
    /\ fixture.fixtures[2].collection # fixture.fixtures[3].collection

\* C11: the construction fails, and leaves no Fixture, whenever name is not
\* a string, collections is not a mapping, or keys is not a list.
C11_BadTypesFail ==
    ( /\ ctor # "pending"
      /\ \/ options.name.t # "str"
         \/ options.collections.t # "obj"
         \/ options.keys.t # "arr" )
    => (ctor = "threw" /\ fixture = NoFixture)

\* the name parse gives the binding of pair p, when the attribute looked at
\* first is `first`, then `second`, then `third`, then the fallback
NameBy(p, first, second, third) ==
    LET c == p.collection
    IN  IF c[first] # <<>> THEN FxName \o Dot \o c[first]
        ELSE IF c[second] # <<>> THEN FxName \o Dot \o c[second]
        ELSE IF c[third] # <<>> THEN FxName \o Dot \o c[third]
        ELSE FxName \o Dot \o p.key \o <<"[">> \o IndexStr(p.index) \o <<"]">>

\* C12 as stated: the binding name is built from name if present, otherwise
\* _name, otherwise collection._name, otherwise the fallback, prefixed with
\* the fixture's name.
C12_PublicNameFirst ==
    (ctor = "ok" /\ options.collections.t = "obj") =>
        \A p \in DOMAIN fixture.fixtures :
            fixture.fixtures[p].name =
                NameBy(PairsOf(options.collections.v)[p], "name", "uname", "cname")

\* C12 amended: the binding name is built from collection._name if present,
\* otherwise _name, otherwise name, otherwise the fallback, prefixed with the
\* fixture's name.
C12_NestedNameFirst ==
    (ctor = "ok" /\ options.collections.t = "obj") =>
        \A p \in DOMAIN fixture.fixtures :
            /\ fixture.fixtures[p].name =
                 NameBy(PairsOf(options.collections.v)[p], "cname", "uname", "name")
            /\ SubSeq(fixture.fixtures[p].name, 1, Len(FxName) + 1) = FxName \o Dot

\* a collection with name, _name and collection._name, and one with none
C12_Witness ==
    /\ ctor = "ok"
    /\ Len(fixture.fixtures) = 2
    /\ fixture.fixtures[1].collection = HAll
    /\ fixture.fixtures[1].name = FxName \o Dot \o <<"P">>
    /\ fixture.fixtures[2].collection = HAnon
    /\ fixture.fixtures[2].name = FxName \o Dot \o K1 \o <<"[", "1", "]">>

\* C19: in a constructed Fixture no two bindings have the same name, hence
\* no two bindings have the same file.
C19_DisjointNames ==
    ctor = "ok" =>
        \A p, q \in DOMAIN fixture.fixtures :
            p # q => /\ fixture.fixtures[p].name # fixture.fixtures[q].name
                     /\ filename(fixture, fixture.fixtures[p].name)
                          # filename(fixture, fixture.fixtures[q].name)

(***************************************************************************)
(* Properties of init and of the command line (specification SpecCli).      *)
(***************************************************************************)
\* two exported Fixtures share a name
SharedName(exp) ==
    \E i, j \in DOMAIN exp :
        /\ i # j
        /\ exp[i].isFixture /\ exp[j].isFixture
        /\ exp[i].obj.name = exp[j].obj.name

\* C13: when two exported Fixtures share a name, init fails (the import
\* fails, the command line ends with a nonzero status), and it fails before
\* any load, get or clear is started and before any call is issued.
C13_DuplicatesRejectedFirst ==
    (module.callsInit /\ SharedName(module.exports) /\ proc.pc # "start") =>
        /\ proc.pc = IF module.parent THEN "failed" ELSE "exited"
        /\ ~module.parent => proc.exit = "nonzero"
        /\ io = EmptyIo
        /\ \A i \in DOMAIN runs : runs[i] = NoRun

\* `load` on the command line, two Fixtures of one name, each with a binding
C13_Witness ==
    /\ module.callsInit /\ ~module.parent
    /\ module.argv = "load"
    /\ Len(module.exports) = 2
    /\ SharedName(module.exports)
    /\ \A i \in DOMAIN module.exports : module.exports[i].obj.fixtures # <<>>
    /\ proc.pc = "exited"

\* C14 as stated: no operation changes the name, the binding list, the keys
\* or the path of an exported Fixture.
C14_Immutable ==
    \A i \in DOMAIN exported : exported[i].obj = module.exports[i].obj

\* C14: no operation changes the name, the binding list or the keys of a
\* Fixture; its path is changed by init only, and only from unset to the
\* directory of the module.
C14_OnlyInitSetsPath ==
    \A i \in DOMAIN exported :
        LET was == module.exports[i].obj
            is == exported[i].obj
        IN  /\ is.name = was.name
            /\ is.fixtures = was.fixtures
            /\ is.keys = was.keys
            /\ is.path # was.path =>
                  /\ was.path = <<>>
                  /\ is.path = dirname(module.filename)
                  /\ module.callsInit
                  /\ proc.pc # "start"

\* init gave a Fixture its path, and a load of that Fixture has reported
C14_Witness ==
    \E i \in DOMAIN exported :
        /\ exported[i].obj.path # module.exports[i].obj.path
        /\ runs[i].op = "load"
        /\ runs[i].cb # <<>>

\* the module is run with the subcommand load or get
CliRun ==
    /\ module.callsInit
    /\ ~module.parent
    /\ module.argv \in {"load", "get"}

\* C15: run with load or get, the process exits with status 0 only when
\* every registered fixture's operation has reported a total, every task of
\* it having succeeded; once an operation has reported an error or thrown,
\* the process has ended with a nonzero status.
C15_ExitZeroOnlyAfterAll ==
    CliRun =>
        LET g == getFixtures(module.exports)
        IN  /\ proc.exit = "0" =>
                  /\ ~g.threw
                  /\ g.fixtures # <<>>
                  /\ \A k \in DOMAIN g.fixtures :
                        LET r == runs[g.fixtures[k]]
                        IN  /\ r.op = module.argv
                            /\ ~r.threw
                            /\ Len(r.cb) = 1
                            /\ r.cb[1].hasTotal
                            /\ r.group.n > 0
                            /\ r.group.completed = r.group.n
            /\ ( \E i \in DOMAIN runs :
                    \/ runs[i].threw
                    \/ \E c \in Range(runs[i].cb) : ~c.hasTotal )
               => (proc.pc = "exited" /\ proc.exit = "nonzero")

\* `get` over two fixtures, three bindings in all: status 0
C15_Witness ==
    /\ CliRun
    /\ module.argv = "get"
    /\ Len(getFixtures(module.exports).fixtures) = 2
    /\ Cardinality(io.files) = 3
    /\ proc.exit = "0"

\* C16: run with another subcommand than load and get, or with none, the
\* process exits with a nonzero status and no operation is started, no call
\* issued.
C16_OnlyLoadGetDispatch ==
    ( /\ module.callsInit
      /\ ~module.parent
      /\ module.argv \notin {"load", "get"}
      /\ proc.pc # "start" )
    => /\ proc.pc = "exited"
       /\ proc.exit = "nonzero"
       /\ io = EmptyIo

\* C17: after init a Fixture constructed with a path has that path, and one
\* constructed without has the directory of the module's file; the file an
\* operation uses for a binding is "<directory>/<binding name>.ejson", the
\* directory being "./test" for a Fixture that has no path and was not
\* given one by init.
C17_PathAndFiles ==
    /\ ( /\ module.callsInit
         /\ proc.pc # "start"
         /\ ~getFixtures(module.exports).threw )
       => \A i \in DOMAIN exported :
             exported[i].isFixture =>
                LET given == module.exports[i].obj.path
                IN  /\ given # <<>> => exported[i].obj.path = given
                    /\ (given = <<>> /\ module.filename = ModuleFile)
                          => exported[i].obj.path = <<"/", "t">>
    /\ \A u \in io.files :
          LET fx == module.exports[u.f].obj
              dir == IF fx.path # <<>> THEN fx.path
                     ELSE IF module.callsInit /\ module.filename = ModuleFile
                     THEN <<"/", "t">>
                     ELSE <<".", "/", "t", "e", "s", "t">>
          IN  u.file = dir \o <<"/">> \o fx.fixtures[u.b].name
                           \o <<".", "e", "j", "s", "o", "n">>

\* an imported module with a file name exports a Fixture with a path and one
\* without; a get has written the file of the latter into the module's
\* directory
C17_Witness ==
    /\ module.callsInit /\ module.parent
    /\ module.filename = ModuleFile
    /\ \E i, j \in DOMAIN exported :
          /\ module.exports[i].obj.path = <<>>
          /\ exported[j].obj.path = ExplicitPath
          /\ runs[i].op = "get"
          /\ \E u \in io.files :
                u.f = i /\ u.file = <<"/", "t", "/", "u", ".", "U">> \o Extension

(***************************************************************************)
(* Frame of load, get and clear (specification Spec).                        *)
(***************************************************************************)
\* the find of binding b has reported an error
FindFailed(b) ==
    /\ op = "get"
    /\ tasks[b].st = "failed"
    /\ log.found[b] = <<>>

\* the calls each operation never issues
OnlyOwnCalls ==
    \A b \in Bindings :
        /\ op = "get" =>
              /\ log.saves[b] = <<>>
              /\ log.removes[b] = <<>>
              /\ FindFailed(b) => log.writes[b] = <<>>
        /\ op = "load" =>
              /\ log.finds[b] = <<>>
              /\ log.removes[b] = <<>>
              /\ log.writes[b] = <<>>
        /\ op = "clear" =>
              /\ log.finds[b] = <<>>
              /\ log.saves[b] = <<>>
              /\ log.reads[b] = 0
              /\ log.writes[b] = <<>>

\* C23: during get no write is issued for a binding whose find reported an
\* error and, from then on, the file of that binding does not change; get
\* issues no save and no remove, load no find, no remove and no file write,
\* clear no find, no save, no file read and no file write, and no file
\* changes during load and clear.
C23_FrameOfOperations ==
    /\ []OnlyOwnCalls
    /\ [][ /\ \A b \in Bindings :
               FindFailed(b)' => files'[FileOf(b)] = files[FileOf(b)]
           /\ op' \in {"load", "clear"} => files' = files ]_vars

(***************************************************************************)
(* Termination of load, get and clear (specification SpecLive).              *)
(***************************************************************************)
\* C22: when every call issued reports back, every invocation of load, get
\* and clear eventually calls its callback.
C22_EveryInvocationCallsBack ==
    \A n \in 1..MaxCalls : (ncalls = n) ~> (ncalls = n /\ cbLog # <<>>)

(***************************************************************************)
(* Overlapping invocations, under SpecOverlap.                              *)
(***************************************************************************)
CallFailedStates == {"failed", "savefailed"}
CallDoneStates == {"saved", "written", "removed"}

\* what task b of invocation inv produced
TaskTotal(inv, b) ==
    CASE inv.op = "load" -> CountNonNull(inv.tasks[b].inner.results)
      [] inv.op = "get" -> Len(inv.tasks[b].docs)
      [] OTHER -> inv.outer.results[b].n

RECURSIVE SumTo(_, _)
SumTo(inv, n) == IF n = 0 THEN 0 ELSE SumTo(inv, n - 1) + TaskTotal(inv, n)

ErrKinds(o) ==
    CASE o = "load" -> {"read", "save"}
      [] o = "get" -> {"find", "write"}
      [] OTHER -> {"remove"}

\* the one result of an invocation is its own: an error of one of its tasks
\* that failed, or the total of what its tasks, all done, produced
OwnResult(inv) ==
    inv.cb # <<>> =>
        LET r == inv.cb[1]
        IN  IF r.hasTotal
            THEN /\ \A b \in Bindings : inv.tasks[b].st \in CallDoneStates
                 /\ r.total = SumTo(inv, NBindings)
            ELSE /\ r.err.kind \in ErrKinds(inv.op)
                 /\ r.err.b \in Bindings
                 /\ inv.tasks[r.err.b].st \in CallFailedStates

AtMostOneCallback ==
    \A c \in DOMAIN calls : Len(calls[c].cb) <= 1 /\ OwnResult(calls[c])

\* C21: every invocation of load, get or clear, overlapping another or not,
\* calls its callback at most once: the callback has at most one call, which
\* is the invocation's own result, and once it has been called no later
\* step (another task failing, a task succeeding after a failure, a step of
\* the other invocation) calls it again or changes what it received
C21_CallbackAtMostOnce ==
    /\ []AtMostOneCallback
    /\ [][ \A c \in DOMAIN calls :
              calls[c].cb # <<>> => calls'[c].cb = calls[c].cb ]_vars

\* two invocations overlap and both have received an error: the later one
\* after which a second task of it failed too, the earlier one with a task
\* still to report
C21_Witness ==
    /\ Len(calls) = 2
    /\ NBindings = 2
    /\ Len(calls[2].cb) = 1 /\ ~calls[2].cb[1].hasTotal
    /\ \A b \in Bindings : calls[2].tasks[b].st \in CallFailedStates
    /\ Len(calls[1].cb) = 1 /\ ~calls[1].cb[1].hasTotal
    /\ \E b \in Bindings :
          calls[1].tasks[b].st \notin CallFailedStates \cup CallDoneStates

\* an invocation received an error and a task of it succeeded all the same,
\* while the other invocation received its total
C21_WitnessSuccess ==
    /\ Len(calls) = 2
    /\ \E c \in 1..2 :
          /\ Len(calls[c].cb) = 1 /\ ~calls[c].cb[1].hasTotal
          /\ \E b \in Bindings : calls[c].tasks[b].st \in CallDoneStates
          /\ Len(calls[3 - c].cb) = 1 /\ calls[3 - c].cb[1].hasTotal
          /\ calls[3 - c].cb[1].total > 0

=============================================================================
